---- MODULE Spec2Model ----
(***************************************************************************)
(* Organization Management Service: the tenant lifecycle of               *)
(* app/services/org_service.py (create, rename in two variants, delete)   *)
(* and the login of app/services/auth_service.py, over a document store   *)
(* with no multi-document transactions.  Every await of a handler is one  *)
(* step; handlers of different requests interleave step by step.          *)
(***************************************************************************)
EXTENDS Naturals, Sequences, FiniteSets, TLC

\* ------------------------------------------------------------------ bounds
NumProcs == 3       \* request slots
RaceSlots == 2      \* requests in flight at the same time when clients race
RaceClock == 2      \* evaluations of datetime.now() when clients race
RenameSlots == 2    \* requests in flight at the same time when clients rename
RenameClock == 3    \* evaluations of datetime.now() when clients rename
PairSlots == 2      \* requests in flight at the same time when two renames meet
PairClock == 3      \* evaluations of datetime.now() when two renames meet
TargetSlots == 2    \* requests in flight at the same time when renames share a target
TargetClock == 4    \* evaluations of datetime.now() when renames share a target
StrandSlots == 2    \* requests in flight at the same time when a delete stops half-way
StrandClock == 3    \* evaluations of datetime.now() when a delete stops half-way
DeleteSlots == 2    \* requests in flight at the same time when clients delete
DeleteClock == 2    \* evaluations of datetime.now() when clients delete
TokenClock == 2     \* evaluations of datetime.now() when tokens expire
CleanSlots == 2     \* requests in flight at the same time when nothing fails
CleanClock == 2     \* evaluations of datetime.now() when nothing fails
CreateSlots == 2    \* requests in flight at the same time when clients create
CreateClock == 3    \* evaluations of datetime.now() when clients create
MaxDocs == 1        \* distinct documents a tenant's client may write
MaxNameLen == 4     \* characters of a raw name when names of every shape are tried
MaxWindow == 2      \* overlapping calls whose results the history keeps

Procs == 1..NumProcs
Docs == 1..MaxDocs

\* The raw names requests carry: two that normalize to the same slug, one
\* that normalizes to another slug, one that normalizes to the empty slug.
RawNames == { <<"A">>, <<"a", " ">>, <<"b">>, <<"-">> }
Emails == { "e1" }
Passwords == { "p1" }

\* ------------------------------------------------------- _normalize_name
Whitespace == { " " }

Lower(c) == IF c = "A" THEN "a" ELSE IF c = "B" THEN "b" ELSE c

IsSlugChar(c) == c \in { "a", "b", "0" }

RECURSIVE LStrip(_, _)
LStrip(s, chars) ==
    IF s # <<>> /\ Head(s) \in chars THEN LStrip(Tail(s), chars) ELSE s

RECURSIVE RStrip(_, _)
RStrip(s, chars) ==
    IF s # <<>> /\ s[Len(s)] \in chars
    THEN RStrip(SubSeq(s, 1, Len(s) - 1), chars)
    ELSE s

\* str.strip(chars)
Strip(s, chars) == RStrip(LStrip(s, chars), chars)

\* Variant: a substitution without the "+": every other character becomes
\* a "_" of its own.
RECURSIVE SubRuns_EachChar(_, _)
SubRuns_EachChar(s, inRun) ==
    IF s = <<>> THEN <<>>
    ELSE IF IsSlugChar(Head(s)) THEN <<Head(s)>> \o SubRuns_EachChar(Tail(s), FALSE)
    ELSE <<"_">> \o SubRuns_EachChar(Tail(s), TRUE)

\* re.sub(r"[^a-z0-9]+", "_", s): every maximal run of other characters
\* becomes one "_".
RECURSIVE SubRuns(_, _)
SubRuns(s, inRun) ==
    IF s = <<>> THEN <<>>
    ELSE IF IsSlugChar(Head(s)) THEN <<Head(s)>> \o SubRuns(Tail(s), FALSE)
    ELSE IF inRun THEN SubRuns(Tail(s), TRUE)
    ELSE <<"_">> \o SubRuns(Tail(s), TRUE)

_normalize_name(name) ==
    LET stripped == Strip(name, Whitespace)
        slug == [i \in 1..Len(stripped) |-> Lower(stripped[i])]
    IN  Strip(SubRuns(slug, FALSE), { "_" })

CollectionOf(normalized) == <<"o", "r", "g", "_">> \o normalized

\* ------------------------------------------------------------- security
hash_password(plain) == [bcrypt |-> plain]

verify_password(plain, hashed) == hashed.bcrypt = plain

\* str(ObjectId) and ObjectId(str)
IdToStr(id) == <<"oid", id>>

ObjectId(s) == s[2]

\* datetime.isoformat()
IsoFormat(t) == <<"iso", t>>

create_access_token(subject, org_id) ==
    [sub |-> subject, org |-> org_id, exp |-> "ahead"]

\* ------------------------------------------------------------------ state
VARIABLES
    orgs,       \* db["organizations"]: _id -> document
    admins,     \* db["admin_users"]: _id -> document
    colls,      \* the other collections of the database: name -> documents
    tokens,     \* the access tokens /admin/login has issued
    nextId,     \* the next ObjectId the store assigns
    clock,      \* datetime.now(): a counter that every evaluation advances
    proc,       \* per request slot: the handler's position and locals
    win         \* history: the calls that overlap since the store was last at rest

vars == <<orgs, admins, colls, tokens, nextId, clock, proc, win>>

NoToken == [sub |-> <<"oid", 0>>, org |-> <<"oid", 0>>, exp |-> "ahead"]
BadToken == [sub |-> <<"bad">>, org |-> <<"bad">>, exp |-> "ahead"]

NoView == [name |-> <<>>, display_name |-> <<>>, collection_name |-> <<>>,
           status |-> "", created_at |-> <<>>, updated_at |-> <<>>, owner_email |-> ""]

Idle == [pc |-> "idle", op |-> "", organization_name |-> <<>>,
         current_name |-> <<>>, email |-> "", password |-> "",
         token |-> NoToken, admin_id |-> 0, org_id |-> 0,
         old_collection |-> <<>>, docs |-> {}, now |-> 0,
         res |-> "", organization |-> NoView, admin |-> 0]

NoSnap == [orgs |-> <<>>, admins |-> <<>>, colls |-> <<>>]

StoreNow == [orgs |-> orgs, admins |-> admins, colls |-> colls]

Quiescent == \A q \in Procs : proc[q].pc = "idle"

\* ------------------------------------------------------- store primitives
\* find_one returns the first match in natural (insertion) order, or None (0).
FirstId(S) == IF S = {} THEN 0 ELSE CHOOSE i \in S : \A j \in S : i <= j

FindOrgByName(name) == FirstId({ i \in DOMAIN orgs : orgs[i].name = name })

FindOrgById(id) == IF id \in DOMAIN orgs THEN id ELSE 0

\* Variant: a find_one that returns the last match instead of the first.
FindActiveAdminByEmail_Last(email) ==
    LET S == { i \in DOMAIN admins : admins[i].email = email /\ admins[i].is_active }
    IN  IF S = {} THEN 0 ELSE CHOOSE i \in S : \A j \in S : j <= i

FindActiveAdminByEmail(email) ==
    FirstId({ i \in DOMAIN admins : admins[i].email = email /\ admins[i].is_active })

FindActiveAdminById(id) ==
    IF id \in DOMAIN admins /\ admins[id].is_active THEN id ELSE 0

FindAdminById(id) == IF id \in DOMAIN admins THEN id ELSE 0

\* insert_one
Insert(coll, id, doc) == [i \in DOMAIN coll \cup {id} |-> IF i = id THEN doc ELSE coll[i]]

\* delete_one / delete_many on a filter
DeleteWhere(coll, ids) == [i \in DOMAIN coll \ ids |-> coll[i]]

\* db[name].find({}): a missing collection reads as empty
DocsOf(name) == IF name \in DOMAIN colls THEN colls[name] ELSE {}

\* db[name].drop(): a no-op on a missing collection
Drop(name) == [c \in DOMAIN colls \ {name} |-> colls[c]]

\* db[name].insert_many(docs): creates a missing collection
InsertMany(name, docs) ==
    [c \in DOMAIN colls \cup {name} |-> IF c = name THEN DocsOf(name) \cup docs ELSE colls[c]]

\* ------------------------------------------------------- request plumbing
Goto(p, pc) == proc' = [proc EXCEPT ![p].pc = pc]

\* raise ValueError(msg), or any exception that leaves the handler
Raise(p, msg) == proc' = [proc EXCEPT ![p].pc = "done", ![p].res = msg]

\* A response leaves as soon as its handler has returned or raised.
NoneDone == \A q \in Procs : proc[q].pc # "done"

\* A handler runs when its request slot is at the given position.
At(p, pc) == proc[p].pc = pc /\ NoneDone

\* The calls in flight that have yet to evaluate datetime.now()
BeforeNow ==
    { q \in Procs : proc[q].pc \in
        { "c_find", "u_find_admin", "u_find_org", "b_find_org", "u_find_existing" } }

\* A model run evaluates datetime.now() at most `most` times: a create or a
\* rename is accepted only while the calls in flight leave room for it.
Budget(most) == clock + Cardinality(BeforeNow) < most

\* The history of a window of overlapping calls: the store when its first
\* call arrived, how many calls have arrived, and the calls that have
\* returned, in order.  Windows of more than MaxWindow calls, and windows a
\* crash or a tenant's write falls into, are not tracked.
NoWindow == [snap |-> NoSnap, begun |-> 0, ended |-> <<>>]

\* A request arrives: it takes the lowest free slot (slots are
\* interchangeable).
Begin(p) ==
    /\ proc[p].pc = "idle"
    /\ \A q \in Procs : q < p => proc[q].pc # "idle"
    /\ NoneDone
    /\ win' = IF Quiescent
              THEN [snap |-> StoreNow, begun |-> 1, ended |-> <<>>]
              ELSE IF win.begun = 0 \/ win.begun = MaxWindow
              THEN NoWindow
              ELSE [win EXCEPT !.begun = @ + 1]

Init ==
    /\ orgs = <<>>
    /\ admins = <<>>
    /\ colls = <<>>
    /\ tokens = {}
    /\ nextId = 1
    /\ clock = 0
    /\ proc = [p \in Procs |-> Idle]
    /\ win = NoWindow

\* ---------------------------------------------------- create_organization
\* POST /org/create: normalize, reject an empty slug.
StartCreate(p, organization_name, email, password) ==
    /\ Begin(p)
    /\ proc' = [proc EXCEPT ![p] =
            IF _normalize_name(organization_name) = <<>>
            THEN [Idle EXCEPT !.op = "create", !.pc = "done",
                    !.organization_name = organization_name,
                    !.res = "Organization name is empty after normalization"]
            ELSE [Idle EXCEPT !.op = "create", !.pc = "c_find",
                    !.organization_name = organization_name,
                    !.email = email, !.password = password]]
    /\ UNCHANGED <<orgs, admins, colls, tokens, nextId, clock>>

\* Variant: a create without the pre-check on the name.
CreateFindExisting_NoCheck(p) ==
    /\ At(p, "c_find")
    /\ proc' = [proc EXCEPT ![p].pc = "c_create_collection", ![p].now = clock + 1]
    /\ clock' = clock + 1
    /\ UNCHANGED <<orgs, admins, colls, tokens, nextId, win>>

\* existing = find_one({"name": normalized}); now = datetime.now()
CreateFindExisting(p) ==
    /\ At(p, "c_find")
    /\ IF FindOrgByName(_normalize_name(proc[p].organization_name)) # 0
       THEN /\ Raise(p, "Organization name already exists")
            /\ UNCHANGED clock
       ELSE /\ proc' = [proc EXCEPT ![p].pc = "c_create_collection", ![p].now = clock + 1]
            /\ clock' = clock + 1
    /\ UNCHANGED <<orgs, admins, colls, tokens, nextId, win>>

\* Variant: a create_collection that does not fail on an existing collection.
CreateCollection_NoCollision(p) ==
    LET collection_name == CollectionOf(_normalize_name(proc[p].organization_name))
    IN  /\ At(p, "c_create_collection")
        /\ colls' = InsertMany(collection_name, {})
        /\ Goto(p, "c_insert_org")
        /\ UNCHANGED <<orgs, admins, tokens, nextId, clock, win>>

\* Variant: a create that, on a collision, drops the collection it found.
CreateCollection_Recreates(p) ==
    LET collection_name == CollectionOf(_normalize_name(proc[p].organization_name))
    IN  /\ At(p, "c_create_collection")
        /\ IF collection_name \in DOMAIN colls
           THEN /\ Raise(p, "Organization collection already exists")
                /\ colls' = Drop(collection_name)
           ELSE /\ colls' = InsertMany(collection_name, {})
                /\ Goto(p, "c_insert_org")
        /\ UNCHANGED <<orgs, admins, tokens, nextId, clock, win>>

\* create_collection(collection_name): CollectionInvalid if it exists
CreateCollection(p) ==
    LET collection_name == CollectionOf(_normalize_name(proc[p].organization_name))
    IN  /\ At(p, "c_create_collection")
        /\ IF collection_name \in DOMAIN colls
           THEN /\ Raise(p, "Organization collection already exists")
                /\ UNCHANGED colls
           ELSE /\ colls' = InsertMany(collection_name, {})
                /\ Goto(p, "c_insert_org")
        /\ UNCHANGED <<orgs, admins, tokens, nextId, clock, win>>

\* org_res = organizations.insert_one(org_doc)
CreateInsertOrg(p) ==
    LET normalized == _normalize_name(proc[p].organization_name)
        org_doc == [name |-> normalized,
                    display_name |-> proc[p].organization_name,
                    collection_name |-> CollectionOf(normalized),
                    owner_admin_id |-> 0,
                    status |-> "active",
                    created_at |-> proc[p].now,
                    updated_at |-> proc[p].now]
    IN  /\ At(p, "c_insert_org")
        /\ orgs' = Insert(orgs, nextId, org_doc)
        /\ nextId' = nextId + 1
        /\ proc' = [proc EXCEPT ![p].pc = "c_insert_admin", ![p].org_id = nextId]
        /\ UNCHANGED <<admins, colls, tokens, clock, win>>

\* admin_res = admins.insert_one(admin_doc)
CreateInsertAdmin(p) ==
    LET admin_doc == [org_id |-> proc[p].org_id,
                      email |-> proc[p].email,
                      password_hash |-> hash_password(proc[p].password),
                      role |-> "admin",
                      is_active |-> TRUE,
                      created_at |-> proc[p].now,
                      updated_at |-> proc[p].now]
    IN  /\ At(p, "c_insert_admin")
        /\ admins' = Insert(admins, nextId, admin_doc)
        /\ nextId' = nextId + 1
        /\ proc' = [proc EXCEPT ![p].pc = "c_link_owner", ![p].admin_id = nextId]
        /\ UNCHANGED <<orgs, colls, tokens, clock, win>>

\* Variant: a create that never links the owner.
CreateLinkOwner_Skips(p) ==
    /\ At(p, "c_link_owner")
    /\ Goto(p, "c_fetch_org")
    /\ UNCHANGED <<orgs, admins, colls, tokens, nextId, clock, win>>

\* organizations.update_one({"_id": org_id}, {"$set": {"owner_admin_id": admin_id}})
CreateLinkOwner(p) ==
    /\ At(p, "c_link_owner")
    /\ orgs' = [i \in DOMAIN orgs |->
            IF i = proc[p].org_id
            THEN [orgs[i] EXCEPT !.owner_admin_id = proc[p].admin_id]
            ELSE orgs[i]]
    /\ Goto(p, "c_fetch_org")
    /\ UNCHANGED <<admins, colls, tokens, nextId, clock, win>>

\* serialize_mongo_doc of an organization document, less its identifiers
ViewOf(org, owner_email) ==
    [name |-> org.name, display_name |-> org.display_name,
     collection_name |-> org.collection_name, status |-> org.status,
     created_at |-> IsoFormat(org.created_at),
     updated_at |-> IsoFormat(org.updated_at),
     owner_email |-> owner_email]

\* org = organizations.find_one({"_id": org_id})
CreateFetchOrg(p) ==
    LET org == FindOrgById(proc[p].org_id)
    IN  /\ At(p, "c_fetch_org")
        /\ proc' = [proc EXCEPT ![p].pc = "c_fetch_admin",
                ![p].organization = IF org = 0 THEN NoView ELSE ViewOf(orgs[org], "")]
        /\ UNCHANGED <<orgs, admins, colls, tokens, nextId, clock, win>>

\* admin = admins.find_one({"_id": admin_id}); return both documents
CreateFetchAdmin(p) ==
    /\ At(p, "c_fetch_admin")
    /\ proc' = [proc EXCEPT ![p].pc = "done", ![p].res = "ok",
            ![p].admin = FindAdminById(proc[p].admin_id)]
    /\ UNCHANGED <<orgs, admins, colls, tokens, nextId, clock, win>>

\* ------------------------------- update_organization(_better): the rename
\* PUT /org/update: normalize the new name, reject an empty slug.
StartUpdate(p, organization_name, email, password) ==
    /\ Begin(p)
    /\ proc' = [proc EXCEPT ![p] =
            IF _normalize_name(organization_name) = <<>>
            THEN [Idle EXCEPT !.op = "update", !.pc = "done",
                    !.organization_name = organization_name,
                    !.res = "Organization name is empty after normalization"]
            ELSE [Idle EXCEPT !.op = "update", !.pc = "u_find_admin",
                    !.organization_name = organization_name,
                    !.email = email, !.password = password]]
    /\ UNCHANGED <<orgs, admins, colls, tokens, nextId, clock>>

\* PUT /org/update_better: normalize both names, reject an empty slug.
StartUpdateBetter(p, current_name, new_name, email, password) ==
    /\ Begin(p)
    /\ proc' = [proc EXCEPT ![p] =
            LET call == [Idle EXCEPT !.op = "update_better",
                            !.current_name = current_name,
                            !.organization_name = new_name]
            IN  IF _normalize_name(current_name) = <<>>
                THEN [call EXCEPT !.pc = "done",
                        !.res = "Current organization name is required"]
                ELSE IF _normalize_name(new_name) = <<>>
                THEN [call EXCEPT !.pc = "done",
                        !.res = "New organization name is empty after normalization"]
                ELSE [call EXCEPT !.pc = "u_find_admin",
                        !.email = email, !.password = password]]
    /\ UNCHANGED <<orgs, admins, colls, tokens, nextId, clock>>

\* admin = admins.find_one({"email": email, "is_active": True}); verify
UpdateFindAdmin(p) ==
    LET admin == FindActiveAdminByEmail(proc[p].email)
    IN  /\ At(p, "u_find_admin")
        /\ IF admin = 0
           THEN Raise(p, "Invalid credentials")
           ELSE IF ~verify_password(proc[p].password, admins[admin].password_hash)
           THEN Raise(p, "Invalid credentials")
           ELSE proc' = [proc EXCEPT
                    ![p].pc = IF proc[p].op = "update" THEN "u_find_org" ELSE "b_find_org",
                    ![p].admin_id = admin,
                    ![p].org_id = admins[admin].org_id]
        /\ UNCHANGED <<orgs, admins, colls, tokens, nextId, clock, win>>

\* update_organization: org = find_one({"_id": org_id}); unchanged name?
UpdateFindOrg(p) ==
    LET org == FindOrgById(proc[p].org_id)
    IN  /\ At(p, "u_find_org")
        /\ IF org = 0
           THEN Raise(p, "Organization not found")
           ELSE IF orgs[org].name = _normalize_name(proc[p].organization_name)
           THEN Goto(p, "v_find_org")
           ELSE proc' = [proc EXCEPT ![p].pc = "u_find_existing",
                    ![p].old_collection = orgs[org].collection_name]
        /\ UNCHANGED <<orgs, admins, colls, tokens, nextId, clock, win>>

\* Variant: an update_organization_better that does not compare the admin's
\* org_id with the tenant it found.
BetterFindOrg_NoAuthz(p) ==
    LET org == FindOrgByName(_normalize_name(proc[p].current_name))
    IN  /\ At(p, "b_find_org")
        /\ IF org = 0
           THEN Raise(p, "Organization not found")
           ELSE IF _normalize_name(proc[p].current_name)
                    = _normalize_name(proc[p].organization_name)
           THEN Goto(p, "v_find_org")
           ELSE proc' = [proc EXCEPT ![p].pc = "u_find_existing",
                    ![p].org_id = org,
                    ![p].old_collection = orgs[org].collection_name]
        /\ UNCHANGED <<orgs, admins, colls, tokens, nextId, clock, win>>

\* update_organization_better: org = find_one({"name": normalized_current});
\* the admin must belong to it; same name?
BetterFindOrg(p) ==
    LET org == FindOrgByName(_normalize_name(proc[p].current_name))
    IN  /\ At(p, "b_find_org")
        /\ IF org = 0
           THEN Raise(p, "Organization not found")
           ELSE IF proc[p].org_id # org
           THEN Raise(p, "Admin not authorized for this organization")
           ELSE IF _normalize_name(proc[p].current_name)
                    = _normalize_name(proc[p].organization_name)
           THEN Goto(p, "v_find_org")
           ELSE proc' = [proc EXCEPT ![p].pc = "u_find_existing",
                    ![p].old_collection = orgs[org].collection_name]
        /\ UNCHANGED <<orgs, admins, colls, tokens, nextId, clock, win>>

\* existing = find_one({"name": normalized_new}); now = datetime.now()
UpdateFindExisting(p) ==
    /\ At(p, "u_find_existing")
    /\ IF FindOrgByName(_normalize_name(proc[p].organization_name)) # 0
       THEN /\ Raise(p, "Organization name already exists")
            /\ UNCHANGED clock
       ELSE IF proc[p].old_collection = <<>>
       THEN /\ Raise(p, "Organization collection missing")
            /\ UNCHANGED clock
       ELSE /\ proc' = [proc EXCEPT ![p].pc = "u_create_collection", ![p].now = clock + 1]
            /\ clock' = clock + 1
    /\ UNCHANGED <<orgs, admins, colls, tokens, nextId, win>>

\* Variant: a rename that takes over a collection that already exists.
UpdateCreateCollection_Reuses(p) ==
    LET new_collection == CollectionOf(_normalize_name(proc[p].organization_name))
    IN  /\ At(p, "u_create_collection")
        /\ colls' = InsertMany(new_collection, {})
        /\ Goto(p, "u_read_docs")
        /\ UNCHANGED <<orgs, admins, tokens, nextId, clock, win>>

\* Variant: a rename that checks for the new collection but leaves its
\* creation to the first insert.
UpdateCreateCollection_Lazy(p) ==
    LET new_collection == CollectionOf(_normalize_name(proc[p].organization_name))
    IN  /\ At(p, "u_create_collection")
        /\ IF new_collection \in DOMAIN colls
           THEN Raise(p, "Organization collection already exists")
           ELSE Goto(p, "u_read_docs")
        /\ UNCHANGED <<orgs, admins, colls, tokens, nextId, clock, win>>

\* create_collection(new_collection): CollectionInvalid if it exists
UpdateCreateCollection(p) ==
    LET new_collection == CollectionOf(_normalize_name(proc[p].organization_name))
    IN  /\ At(p, "u_create_collection")
        /\ IF new_collection \in DOMAIN colls
           THEN /\ Raise(p, "Organization collection already exists")
                /\ UNCHANGED colls
           ELSE /\ colls' = InsertMany(new_collection, {})
                /\ Goto(p, "u_read_docs")
        /\ UNCHANGED <<orgs, admins, tokens, nextId, clock, win>>

\* docs = old_coll.find({}).to_list(); the read may raise
UpdateReadDocs(p) ==
    /\ At(p, "u_read_docs")
    /\ \/ proc' = [proc EXCEPT
                ![p].pc = IF DocsOf(proc[p].old_collection) = {}
                          THEN "u_drop_old" ELSE "u_insert_many",
                ![p].docs = DocsOf(proc[p].old_collection)]
       \/ Goto(p, "u_rollback")
    /\ UNCHANGED <<orgs, admins, colls, tokens, nextId, clock, win>>

\* Variant: a copy whose failure is swallowed, so the rename goes on with a
\* partly filled collection.
UpdateInsertMany_FailsOn(p) ==
    LET new_collection == CollectionOf(_normalize_name(proc[p].organization_name))
    IN  /\ At(p, "u_insert_many")
        /\ \E some \in SUBSET proc[p].docs :
                /\ DocsOf(new_collection) \cap some = {}
                /\ colls' = InsertMany(new_collection, some)
                /\ Goto(p, "u_drop_old")
        /\ UNCHANGED <<orgs, admins, tokens, nextId, clock, win>>

\* new_coll.insert_many(docs): all of them, or it raises after some of them
UpdateInsertMany(p) ==
    LET new_collection == CollectionOf(_normalize_name(proc[p].organization_name))
    IN  /\ At(p, "u_insert_many")
        /\ \/ /\ DocsOf(new_collection) \cap proc[p].docs = {}
              /\ colls' = InsertMany(new_collection, proc[p].docs)
              /\ Goto(p, "u_drop_old")
           \/ \E some \in SUBSET proc[p].docs :
                /\ some # proc[p].docs
                /\ colls' = InsertMany(new_collection, some)
                /\ Goto(p, "u_rollback")
        /\ UNCHANGED <<orgs, admins, tokens, nextId, clock, win>>

\* Variant: a rollback that re-raises without dropping the new collection.
UpdateRollback_NoDrop(p) ==
    /\ At(p, "u_rollback")
    /\ Raise(p, "migration failed")
    /\ UNCHANGED <<orgs, admins, colls, tokens, nextId, clock, win>>

\* except Exception: new_coll.drop(); raise
UpdateRollback(p) ==
    LET new_collection == CollectionOf(_normalize_name(proc[p].organization_name))
    IN  /\ At(p, "u_rollback")
        /\ colls' = Drop(new_collection)
        /\ Raise(p, "migration failed")
        /\ UNCHANGED <<orgs, admins, tokens, nextId, clock, win>>

\* Variant: a rename that leaves the old collection in place.
UpdateDropOld_Keeps(p) ==
    /\ At(p, "u_drop_old")
    /\ Goto(p, "u_update_meta")
    /\ UNCHANGED <<orgs, admins, colls, tokens, nextId, clock, win>>

\* old_coll.drop()
UpdateDropOld(p) ==
    /\ At(p, "u_drop_old")
    /\ colls' = Drop(proc[p].old_collection)
    /\ Goto(p, "u_update_meta")
    /\ UNCHANGED <<orgs, admins, tokens, nextId, clock, win>>

\* Variant: an update_one that does not set collection_name.
RenamedDoc_KeepsCollection(org, p) ==
    LET normalized_new == _normalize_name(proc[p].organization_name)
    IN  [org EXCEPT !.name = normalized_new,
                    !.display_name = proc[p].organization_name,
                    !.updated_at = proc[p].now]

\* organizations.update_one({"_id": org_id}, {"$set": {...}})
RenamedDoc(org, p) ==
    LET normalized_new == _normalize_name(proc[p].organization_name)
    IN  [org EXCEPT !.name = normalized_new,
                    !.display_name = proc[p].organization_name,
                    !.collection_name = CollectionOf(normalized_new),
                    !.updated_at = proc[p].now]

\* Variant: an update_one with upsert: a record that is gone is written anew.
UpdateMeta_Upserts(p) ==
    /\ At(p, "u_update_meta")
    /\ orgs' = [i \in DOMAIN orgs \cup { proc[p].org_id } |->
            IF i = proc[p].org_id
            THEN RenamedDoc(IF i \in DOMAIN orgs
                            THEN orgs[i]
                            ELSE [name |-> <<>>, display_name |-> <<>>,
                                  collection_name |-> <<>>, owner_admin_id |-> 0,
                                  status |-> "active", created_at |-> proc[p].now,
                                  updated_at |-> proc[p].now], p)
            ELSE orgs[i]]
    /\ Goto(p, "v_find_org")
    /\ UNCHANGED <<admins, colls, tokens, nextId, clock, win>>

UpdateMeta(p) ==
    /\ At(p, "u_update_meta")
    /\ orgs' = [i \in DOMAIN orgs |->
            IF i = proc[p].org_id THEN RenamedDoc(orgs[i], p) ELSE orgs[i]]
    /\ Goto(p, "v_find_org")
    /\ UNCHANGED <<admins, colls, tokens, nextId, clock, win>>

\* get_organization_by_name: org = find_one({"name": normalized})
ViewFindOrg(p) ==
    LET org == FindOrgByName(_normalize_name(proc[p].organization_name))
    IN  /\ At(p, "v_find_org")
        /\ IF org = 0
           THEN proc' = [proc EXCEPT ![p].pc = "done", ![p].res = "ok",
                    ![p].organization = NoView]
           ELSE IF orgs[org].owner_admin_id = 0
           THEN proc' = [proc EXCEPT ![p].pc = "done", ![p].res = "ok",
                    ![p].organization = ViewOf(orgs[org], "")]
           ELSE proc' = [proc EXCEPT ![p].pc = "v_find_owner",
                    ![p].organization = ViewOf(orgs[org], ""),
                    ![p].admin = orgs[org].owner_admin_id]
        /\ UNCHANGED <<orgs, admins, colls, tokens, nextId, clock, win>>

\* get_organization_by_name: admin = find_one({"_id": owner_admin_id})
ViewFindOwner(p) ==
    LET admin == FindAdminById(proc[p].admin)
    IN  /\ At(p, "v_find_owner")
        /\ proc' = [proc EXCEPT ![p].pc = "done", ![p].res = "ok",
                ![p].organization =
                    [@ EXCEPT !.owner_email = IF admin = 0 THEN "" ELSE admins[admin].email]]
        /\ UNCHANGED <<orgs, admins, colls, tokens, nextId, clock, win>>

\* ---------------------------------------------------- delete_organization
\* decode_access_token: jose raises on a token this service did not sign
\* (JWTError) and on one whose exp has passed (ExpiredSignatureError)
decode_access_token(token) == token

TokenDecodes(token) == token \in tokens /\ token.exp = "ahead"

\* ObjectId(s) raises on a string that is no ObjectId
IsObjectIdStr(s) == Len(s) = 2 /\ s[1] = "oid"

\* DELETE /org/delete: decode the token and take its sub and org claims.
StartDelete(p, organization_name, token) ==
    /\ Begin(p)
    /\ proc' = [proc EXCEPT ![p] =
            LET call == [Idle EXCEPT !.op = "delete",
                            !.organization_name = organization_name,
                            !.token = token]
                payload == decode_access_token(token)
            IN  IF ~TokenDecodes(token)
                THEN [call EXCEPT !.pc = "done", !.res = "Invalid token"]
                ELSE IF ~IsObjectIdStr(payload.sub) \/ ~IsObjectIdStr(payload.org)
                THEN [call EXCEPT !.pc = "done", !.res = "Invalid token payload"]
                ELSE [call EXCEPT !.pc = "d_find_admin",
                        !.admin_id = ObjectId(payload.sub),
                        !.org_id = ObjectId(payload.org)]]
    /\ UNCHANGED <<orgs, admins, colls, tokens, nextId, clock>>

\* Variant: a delete that trusts the token and does not look its subject up.
DeleteFindAdmin_NoSubject(p) ==
    /\ At(p, "d_find_admin")
    /\ IF _normalize_name(proc[p].organization_name) = <<>>
       THEN Raise(p, "Organization name is required")
       ELSE Goto(p, "d_find_org")
    /\ UNCHANGED <<orgs, admins, colls, tokens, nextId, clock, win>>

\* admin = admins.find_one({"_id": admin_obj_id, "is_active": True})
DeleteFindAdmin(p) ==
    LET admin == FindActiveAdminById(proc[p].admin_id)
    IN  /\ At(p, "d_find_admin")
        /\ IF admin = 0
           THEN Raise(p, "Invalid credentials")
           ELSE IF admins[admin].org_id # proc[p].org_id
           THEN Raise(p, "Admin not authorized for this organization")
           ELSE IF _normalize_name(proc[p].organization_name) = <<>>
           THEN Raise(p, "Organization name is required")
           ELSE Goto(p, "d_find_org")
        /\ UNCHANGED <<orgs, admins, colls, tokens, nextId, clock, win>>

\* Variant: a delete that does not compare the tenant's id with the token's
\* org claim.
DeleteFindOrg_NoIdCheck(p) ==
    LET org == FindOrgByName(_normalize_name(proc[p].organization_name))
    IN  /\ At(p, "d_find_org")
        /\ IF org = 0
           THEN Raise(p, "Organization not found")
           ELSE proc' = [proc EXCEPT
                    ![p].pc = IF orgs[org].collection_name # <<>>
                              THEN "d_drop_collection" ELSE "d_delete_admins",
                    ![p].old_collection = orgs[org].collection_name]
        /\ UNCHANGED <<orgs, admins, colls, tokens, nextId, clock, win>>

\* org = organizations.find_one({"name": normalized}); it must be the token's
DeleteFindOrg(p) ==
    LET org == FindOrgByName(_normalize_name(proc[p].organization_name))
    IN  /\ At(p, "d_find_org")
        /\ IF org = 0
           THEN Raise(p, "Organization not found")
           ELSE IF org # proc[p].org_id
           THEN Raise(p, "Token does not match organization")
           ELSE proc' = [proc EXCEPT
                    ![p].pc = IF orgs[org].collection_name # <<>>
                              THEN "d_drop_collection" ELSE "d_delete_admins",
                    ![p].old_collection = orgs[org].collection_name]
        /\ UNCHANGED <<orgs, admins, colls, tokens, nextId, clock, win>>

\* Variant: a delete that removes the tenant record together with the
\* partition, before the admins.
DeleteDropCollection_RecordFirst(p) ==
    /\ At(p, "d_drop_collection")
    /\ colls' = Drop(proc[p].old_collection)
    /\ orgs' = DeleteWhere(orgs, { proc[p].org_id })
    /\ Goto(p, "d_delete_admins")
    /\ UNCHANGED <<admins, tokens, nextId, clock, win>>

\* db[collection_name].drop()
DeleteDropCollection(p) ==
    /\ At(p, "d_drop_collection")
    /\ colls' = Drop(proc[p].old_collection)
    /\ Goto(p, "d_delete_admins")
    /\ UNCHANGED <<orgs, admins, tokens, nextId, clock, win>>

\* Variant: a delete_many that filters on the admin's _id instead of org_id.
DeleteAdmins_ById(p) ==
    /\ At(p, "d_delete_admins")
    /\ admins' = DeleteWhere(admins,
            { i \in DOMAIN admins : i = proc[p].org_id })
    /\ Goto(p, "d_delete_org")
    /\ UNCHANGED <<orgs, colls, tokens, nextId, clock, win>>

\* admins.delete_many({"org_id": org_obj_id})
DeleteAdmins(p) ==
    /\ At(p, "d_delete_admins")
    /\ admins' = DeleteWhere(admins,
            { i \in DOMAIN admins : admins[i].org_id = proc[p].org_id })
    /\ Goto(p, "d_delete_org")
    /\ UNCHANGED <<orgs, colls, tokens, nextId, clock, win>>

\* organizations.delete_one({"_id": org_obj_id}); return {"deleted": True}
DeleteOrg(p) ==
    /\ At(p, "d_delete_org")
    /\ orgs' = DeleteWhere(orgs, { proc[p].org_id })
    /\ proc' = [proc EXCEPT ![p].pc = "done", ![p].res = "ok"]
    /\ UNCHANGED <<admins, colls, tokens, nextId, clock, win>>

\* ------------------------------------------------------------ admin_login
StartLogin(p, email, password) ==
    /\ Begin(p)
    /\ proc' = [proc EXCEPT ![p] =
            [Idle EXCEPT !.op = "login", !.pc = "l_find_admin",
                !.email = email, !.password = password]]
    /\ UNCHANGED <<orgs, admins, colls, tokens, nextId, clock>>

\* authenticate_admin: find_admin_by_email, verify the password
LoginFindAdmin(p) ==
    LET admin == FindActiveAdminByEmail(proc[p].email)
    IN  /\ At(p, "l_find_admin")
        /\ IF admin = 0
           THEN Raise(p, "Invalid credentials")
           ELSE IF ~verify_password(proc[p].password, admins[admin].password_hash)
           THEN Raise(p, "Invalid credentials")
           ELSE proc' = [proc EXCEPT ![p].pc = "l_find_org",
                    ![p].admin_id = admin, ![p].org_id = admins[admin].org_id]
        /\ UNCHANGED <<orgs, admins, colls, tokens, nextId, clock, win>>

\* authenticate_admin reads the organization; create_token_for_admin
LoginFindOrg(p) ==
    LET token == create_access_token(IdToStr(proc[p].admin_id), IdToStr(proc[p].org_id))
    IN  /\ At(p, "l_find_org")
        /\ tokens' = tokens \cup { token }
        /\ proc' = [proc EXCEPT ![p].pc = "done", ![p].res = "ok", ![p].token = token]
        /\ UNCHANGED <<orgs, admins, colls, nextId, clock, win>>

\* ------------------------------------------------------------ environment
\* ACCESS_TOKEN_EXPIRE_MINUTES go by: the exp claim of an issued token passes.
TokenExpires(token) ==
    /\ NoneDone
    /\ token \in tokens
    /\ token.exp = "ahead"
    /\ tokens' = (tokens \ { token }) \cup { [token EXCEPT !.exp = "passed"] }
    /\ UNCHANGED <<orgs, admins, colls, nextId, clock, proc, win>>

\* A tenant's client writes a document into the tenant's collection
\* (get_org_collection); it overlaps whatever call is in flight.
WriteDoc(name, d) ==
    /\ NoneDone
    /\ name \in DOMAIN colls
    /\ \E i \in DOMAIN orgs : orgs[i].collection_name = name
    /\ d \notin colls[name]
    /\ colls' = InsertMany(name, {d})
    /\ win' = NoWindow
    /\ UNCHANGED <<orgs, admins, tokens, nextId, clock, proc>>

\* The handler has returned or raised: the response leaves, the slot is free.
Return(p) ==
    /\ proc[p].pc = "done"
    /\ proc' = [proc EXCEPT ![p] = Idle]
    /\ win' = IF win.begun = 0 \/ \A q \in Procs \ {p} : proc[q].pc = "idle"
              THEN NoWindow
              ELSE [win EXCEPT !.ended = Append(@, proc[p])]
    /\ UNCHANGED <<orgs, admins, colls, tokens, nextId, clock>>

\* The process stops between two store steps of a handler.
Crash(p) ==
    /\ proc[p].pc \notin { "idle", "done" }
    /\ NoneDone
    /\ proc' = [proc EXCEPT ![p] = Idle]
    /\ win' = NoWindow
    /\ UNCHANGED <<orgs, admins, colls, tokens, nextId, clock>>

\* ------------------------------------------------------------- requests
CreateSteps(p) ==
    \/ CreateFindExisting(p)
    \/ CreateCollection(p)
    \/ CreateInsertOrg(p)
    \/ CreateInsertAdmin(p)
    \/ CreateLinkOwner(p)
    \/ CreateFetchOrg(p)
    \/ CreateFetchAdmin(p)

UpdateSteps(p) ==
    \/ UpdateFindAdmin(p)
    \/ UpdateFindOrg(p)
    \/ UpdateFindExisting(p)
    \/ UpdateCreateCollection(p)
    \/ UpdateReadDocs(p)
    \/ UpdateInsertMany(p)
    \/ UpdateRollback(p)
    \/ UpdateDropOld(p)
    \/ UpdateMeta(p)
    \/ ViewFindOrg(p)
    \/ ViewFindOwner(p)

DeleteSteps(p) ==
    \/ DeleteFindAdmin(p)
    \/ DeleteFindOrg(p)
    \/ DeleteDropCollection(p)
    \/ DeleteAdmins(p)
    \/ DeleteOrg(p)

LoginSteps(p) ==
    \/ LoginFindAdmin(p)
    \/ LoginFindOrg(p)

\* Clients create tenants, log in and delete tenants, an admin asks for a
\* rename to the name the tenant has, and the process may stop in the middle
\* of a call.
RaceNames == { <<"A">> }
RaceEmails == { "e1", "e2" }

NextRace ==
    \E p \in 1..RaceSlots :
        \/ /\ Budget(RaceClock)
           /\ \E n \in RaceNames, e \in RaceEmails, w \in Passwords : StartCreate(p, n, e, w)
        \/ CreateSteps(p)
        \/ \E e \in RaceEmails, w \in Passwords : StartLogin(p, e, w)
        \/ LoginSteps(p)
        \/ \E n \in RaceNames, t \in tokens \cup { BadToken } : StartDelete(p, n, t)
        \/ DeleteSteps(p)
        \/ \E n \in RaceNames, e \in RaceEmails, w \in Passwords : StartUpdate(p, n, e, w)
        \/ UpdateFindAdmin(p)
        \/ UpdateFindOrg(p)
        \/ ViewFindOrg(p)
        \/ ViewFindOwner(p)
        \/ Return(p)
        \/ Crash(p)

SpecRace == Init /\ [][NextRace]_vars

\* Clients create and rename tenants while the tenants' own clients write
\* documents, and the process may stop in the middle of a call.
TenantNames == { <<"A">>, <<"b">> }
NewNames == { <<"A">>, <<"a", " ">>, <<"b">> }

NextRename ==
    \/ \E p \in 1..RenameSlots :
        \/ /\ Budget(RenameClock)
           /\ \E n \in TenantNames, e \in Emails, w \in Passwords : StartCreate(p, n, e, w)
        \/ CreateSteps(p)
        \/ /\ Budget(RenameClock)
           /\ \E n \in NewNames, e \in Emails, w \in Passwords : StartUpdate(p, n, e, w)
        \/ /\ Budget(RenameClock)
           /\ \E c \in TenantNames, n \in NewNames, e \in Emails, w \in Passwords :
                StartUpdateBetter(p, c, n, e, w)
        \/ BetterFindOrg(p)
        \/ UpdateSteps(p)
        \/ Return(p)
        \/ Crash(p)
    \/ \E n \in DOMAIN colls, d \in Docs : WriteDoc(n, d)

SpecRename == Init /\ [][NextRename]_vars

\* The admin of one tenant sends renames to two new names, which may
\* overlap, while the tenant's client writes documents.
PairTenant == { <<"A">> }
PairNewNames == { <<"b">>, <<"0">> }

NextPair ==
    \/ \E p \in 1..PairSlots :
        \/ /\ Budget(PairClock)
           /\ \E n \in PairTenant, e \in Emails, w \in Passwords : StartCreate(p, n, e, w)
        \/ CreateSteps(p)
        \/ /\ Budget(PairClock)
           /\ \E n \in PairNewNames, e \in Emails, w \in Passwords : StartUpdate(p, n, e, w)
        \/ /\ Budget(PairClock)
           /\ \E c \in PairTenant, n \in PairNewNames, e \in Emails, w \in Passwords :
                StartUpdateBetter(p, c, n, e, w)
        \/ BetterFindOrg(p)
        \/ UpdateSteps(p)
        \/ Return(p)
    \/ \E n \in DOMAIN colls, d \in Docs : WriteDoc(n, d)

SpecPair == Init /\ [][NextPair]_vars

\* Two admins, each of a tenant of their own, send renames to new names that
\* may be taken or may be the same; tenants are created, and their clients
\* write documents, between the calls.
TargetTenants == { [name |-> <<"A">>, email |-> "e1"], [name |-> <<"b">>, email |-> "e2"] }
TargetNames == { <<"b">>, <<"0">> }

NextTarget ==
    \/ \E p \in 1..TargetSlots :
        \/ /\ Budget(TargetClock)
           /\ Quiescent
           /\ \E t \in TargetTenants, w \in Passwords : StartCreate(p, t.name, t.email, w)
        \/ CreateSteps(p)
        \/ /\ Budget(TargetClock)
           /\ \E n \in TargetNames, e \in RaceEmails, w \in Passwords : StartUpdate(p, n, e, w)
        \/ /\ Budget(TargetClock)
           /\ \E c \in TenantNames, n \in TargetNames, e \in RaceEmails, w \in Passwords :
                StartUpdateBetter(p, c, n, e, w)
        \/ BetterFindOrg(p)
        \/ UpdateSteps(p)
        \/ Return(p)
    \/ /\ Quiescent
       /\ \E n \in DOMAIN colls, d \in Docs : WriteDoc(n, d)

SpecTarget == Init /\ [][NextTarget]_vars

\* Two admins, each of a tenant of their own, log in, rename and delete; a
\* delete may stop in the middle, no copy fails, and tenants are created
\* between the calls.
StrandNames == { <<"A">>, <<"0">> }

NextStrand ==
    \E p \in 1..StrandSlots :
        \/ /\ Budget(StrandClock)
           /\ Quiescent
           /\ \E t \in TargetTenants, w \in Passwords : StartCreate(p, t.name, t.email, w)
        \/ CreateSteps(p)
        \/ \E e \in RaceEmails, w \in Passwords : StartLogin(p, e, w)
        \/ LoginSteps(p)
        \/ \E n \in TenantNames, t \in tokens : StartDelete(p, n, t)
        \/ DeleteSteps(p)
        \/ /\ Budget(StrandClock)
           /\ \E n \in StrandNames, e \in RaceEmails, w \in Passwords : StartUpdate(p, n, e, w)
        \/ /\ Budget(StrandClock)
           /\ \E c \in TenantNames, n \in StrandNames, e \in RaceEmails, w \in Passwords :
                StartUpdateBetter(p, c, n, e, w)
        \/ UpdateFindAdmin(p)
        \/ UpdateFindOrg(p)
        \/ BetterFindOrg(p)
        \/ UpdateFindExisting(p)
        \/ UpdateCreateCollection(p)
        \/ UpdateReadDocs(p) /\ proc'[p].pc # "u_rollback"
        \/ UpdateDropOld(p)
        \/ UpdateMeta(p)
        \/ ViewFindOrg(p)
        \/ ViewFindOwner(p)
        \/ Return(p)
        \/ proc[p].op = "delete" /\ Crash(p)

SpecStrand == Init /\ [][NextStrand]_vars

\* Clients create tenants, log in and delete tenants, and the process may
\* stop in the middle of a call.
NextDelete ==
    \E p \in 1..DeleteSlots :
        \/ /\ Budget(DeleteClock)
           /\ \E n \in TenantNames, e \in Emails, w \in Passwords : StartCreate(p, n, e, w)
        \/ CreateSteps(p)
        \/ \E e \in Emails, w \in Passwords : StartLogin(p, e, w)
        \/ LoginSteps(p)
        \/ \E n \in TenantNames, t \in tokens \cup { BadToken } : StartDelete(p, n, t)
        \/ DeleteSteps(p)
        \/ Return(p)
        \/ Crash(p)

SpecDelete == Init /\ [][NextDelete]_vars

\* Clients create, rename and delete tenants; no store call fails and the
\* process does not stop.
NextClean ==
    \E p \in 1..CleanSlots :
        \/ /\ Budget(CleanClock)
           /\ \E n \in TenantNames, e \in Emails, w \in Passwords : StartCreate(p, n, e, w)
        \/ CreateSteps(p)
        \/ \E e \in Emails, w \in Passwords : StartLogin(p, e, w)
        \/ LoginSteps(p)
        \/ \E n \in TenantNames, t \in tokens \cup { BadToken } : StartDelete(p, n, t)
        \/ DeleteSteps(p)
        \/ /\ Budget(CleanClock)
           /\ \E n \in NewNames, e \in Emails, w \in Passwords : StartUpdate(p, n, e, w)
        \/ /\ Budget(CleanClock)
           /\ \E c \in TenantNames, n \in NewNames, e \in Emails, w \in Passwords :
                StartUpdateBetter(p, c, n, e, w)
        \/ UpdateFindAdmin(p)
        \/ UpdateFindOrg(p)
        \/ BetterFindOrg(p)
        \/ UpdateFindExisting(p)
        \/ UpdateCreateCollection(p)
        \/ UpdateReadDocs(p) /\ proc'[p].pc # "u_rollback"
        \/ UpdateDropOld(p)
        \/ UpdateMeta(p)
        \/ ViewFindOrg(p)
        \/ ViewFindOwner(p)
        \/ Return(p)

SpecClean == Init /\ [][NextClean]_vars

\* A client creates a tenant on an empty store under a name of any shape:
\* upper and lower case, a digit, whitespace, punctuation and "_".
NameChars == { "A", "a", "0", " ", "-", "_" }
NameStrings == UNION { [1..n -> NameChars] : n \in 0..MaxNameLen }

NextNormalize ==
    \/ /\ orgs = <<>>
       /\ colls = <<>>
       /\ \E n \in NameStrings, e \in Emails, w \in Passwords : StartCreate(1, n, e, w)
    \/ CreateSteps(1)
    \/ Return(1)

SpecNormalize == Init /\ [][NextNormalize]_vars

\* One client at a time creates tenants, logs in and deletes tenants, while
\* the tokens it holds expire.
NextToken ==
    \/ /\ Budget(TokenClock)
       /\ \E n \in TenantNames, e \in Emails, w \in Passwords : StartCreate(1, n, e, w)
    \/ CreateSteps(1)
    \/ \E e \in Emails, w \in Passwords : StartLogin(1, e, w)
    \/ LoginSteps(1)
    \/ \E n \in TenantNames, t \in tokens \cup { BadToken } : StartDelete(1, n, t)
    \/ DeleteSteps(1)
    \/ \E t \in tokens : TokenExpires(t)
    \/ Return(1)

SpecToken == Init /\ [][NextToken]_vars

\* Clients create tenants, and the process may stop in the middle of a call.
NextCreate ==
    \E p \in 1..CreateSlots :
        \/ /\ Budget(CreateClock)
           /\ \E n \in RawNames, e \in Emails, w \in Passwords : StartCreate(p, n, e, w)
        \/ CreateSteps(p)
        \/ Return(p)
        \/ Crash(p)

SpecCreate == Init /\ [][NextCreate]_vars

\* ------------------------------------------------------------------ claims
\* The response of POST /org/create is a success: the handler returned and
\* the route found the organization in its result.
CreateSucceeded(call) == call.res = "ok" /\ call.organization # NoView

DuplicateName(call) ==
    call.res \in { "Organization name already exists",
                   "Organization collection already exists" }

\* The two calls of a window of exactly two calls, once both have returned:
\* the first is in the history, the second is about to leave.
PairReturned(p) ==
    /\ win.begun = 2
    /\ Len(win.ended) = 1
    /\ proc[p].pc = "done"

\* The one call of a window of one call, once it has returned.
AloneReturned(p) ==
    /\ win.begun = 1
    /\ proc[p].pc = "done"

HadOrgNamed(name) == \E i \in DOMAIN win.snap.orgs : win.snap.orgs[i].name = name

SameNameCreates(p) ==
    /\ PairReturned(p)
    /\ win.ended[1].op = "create"
    /\ proc[p].op = "create"
    /\ _normalize_name(win.ended[1].organization_name)
            = _normalize_name(proc[p].organization_name)
    /\ _normalize_name(proc[p].organization_name) # <<>>

ExactlyOneCreated(p) ==
    \/ CreateSucceeded(win.ended[1]) /\ DuplicateName(proc[p])
    \/ DuplicateName(win.ended[1]) /\ CreateSucceeded(proc[p])

\* C1 (as stated): of two Create calls whose names normalize to the same
\* value, with no tenant of that name beforehand, exactly one succeeds and
\* the other fails with DuplicateName.
C1_ExactlyOneCreate ==
    \A p \in Procs :
        ( /\ SameNameCreates(p)
          /\ ~HadOrgNamed(_normalize_name(proc[p].organization_name)) )
        => ExactlyOneCreated(p)

\* C1 (amended): the same, when beforehand there is neither a tenant of that
\* name nor a collection "org_" + name.  For two calls one after the other:
\* a Create on its own succeeds from such a store and leaves a tenant of that
\* name, and a Create on its own fails with DuplicateName when a tenant of
\* that name exists.
C1_ExactlyOneCreateNoOrphan ==
    \A p \in Procs :
        LET normalized == _normalize_name(proc[p].organization_name)
            fresh == /\ ~HadOrgNamed(normalized)
                     /\ CollectionOf(normalized) \notin DOMAIN win.snap.colls
        IN  /\ (SameNameCreates(p) /\ fresh) => ExactlyOneCreated(p)
            /\ (AloneReturned(p) /\ proc[p].op = "create" /\ normalized # <<>>) =>
                    /\ fresh => CreateSucceeded(proc[p]) /\ FindOrgByName(normalized) # 0
                    /\ HadOrgNamed(normalized) => DuplicateName(proc[p])

\* Two overlapping creates of "A" and "a " on a fresh store have both
\* returned: one created the tenant, the other was refused.
C1_Witness ==
    \E p \in Procs :
        /\ SameNameCreates(p)
        /\ win.snap = NoSnap
        /\ win.ended[1].organization_name # proc[p].organization_name
        /\ CreateSucceeded(win.ended[1])
        /\ proc[p].res = "Organization collection already exists"

\* ---- renames that overlap no other call
IsRename(call) == call.op \in { "update", "update_better" }

SnapDocsOf(name) ==
    IF name \in DOMAIN win.snap.colls THEN win.snap.colls[name] ELSE {}

\* The rename of slot p has run on its own, from a store in which the admin
\* it authenticated is bound to the tenant `t` it was asked to rename.
RenameAlone(p, t) ==
    /\ AloneReturned(p)
    /\ IsRename(proc[p])
    /\ proc[p].admin_id # 0
    /\ t = proc[p].org_id
    /\ t \in DOMAIN win.snap.orgs
    /\ proc[p].op = "update_better" =>
            _normalize_name(proc[p].current_name) = win.snap.orgs[t].name

\* The response of PUT /org/update(_better) is a success.
RenameSucceeded(call) == call.res = "ok" /\ call.organization # NoView

\* C3: after a Rename that returns successfully with normalize(new) # old
\* name, the old partition is gone, the new partition "org_" + normalize(new)
\* holds exactly the documents the old one held when the Rename started, and
\* the tenant record has name normalize(new) and collection_name
\* "org_" + normalize(new).
C3_RenameMigrates ==
    \A p \in Procs : \A t \in DOMAIN win.snap.orgs :
        LET normalized_new == _normalize_name(proc[p].organization_name)
            old == win.snap.orgs[t]
        IN  ( /\ RenameAlone(p, t)
              /\ RenameSucceeded(proc[p])
              /\ normalized_new # old.name )
            => /\ old.collection_name \notin DOMAIN colls
               /\ CollectionOf(normalized_new) \in DOMAIN colls
               /\ colls[CollectionOf(normalized_new)] = SnapDocsOf(old.collection_name)
               /\ t \in DOMAIN orgs
               /\ orgs[t].name = normalized_new
               /\ orgs[t].collection_name = CollectionOf(normalized_new)

\* A rename of a tenant whose partition holds a document has returned
\* successfully.
C3_Witness ==
    \E p \in Procs : \E t \in DOMAIN win.snap.orgs :
        /\ RenameAlone(p, t)
        /\ RenameSucceeded(proc[p])
        /\ _normalize_name(proc[p].organization_name) # win.snap.orgs[t].name
        /\ SnapDocsOf(win.snap.orgs[t].collection_name) # {}
        /\ proc[p].op = "update_better"

\* C4: when the copy step of a Rename fails, the Rename propagates the
\* failure, and afterwards the new partition does not exist, the old
\* partition's documents are unchanged and the tenant record is unchanged.
C4_FailedCopyRollsBack ==
    \A p \in Procs : \A t \in DOMAIN win.snap.orgs :
        LET old == win.snap.orgs[t]
        IN  ( /\ RenameAlone(p, t)
              /\ proc[p].res = "migration failed" )
            => /\ CollectionOf(_normalize_name(proc[p].organization_name))
                        \notin DOMAIN colls
               /\ old.collection_name \in DOMAIN colls
                        <=> old.collection_name \in DOMAIN win.snap.colls
               /\ DocsOf(old.collection_name) = SnapDocsOf(old.collection_name)
               /\ t \in DOMAIN orgs
               /\ orgs[t] = old

\* The copy of a partition that holds a document has failed and the rename
\* has raised.
C4_Witness ==
    \E p \in Procs : \E t \in DOMAIN win.snap.orgs :
        /\ RenameAlone(p, t)
        /\ proc[p].res = "migration failed"
        /\ proc[p].docs # {}
        /\ DocsOf(win.snap.orgs[t].collection_name) # {}

\* The view get_organization_by_name gives of tenant t of the store the
\* window started from.
SnapViewOf(t) ==
    LET org == win.snap.orgs[t]
        owner == org.owner_admin_id
    IN  ViewOf(org, IF owner \in DOMAIN win.snap.admins
                    THEN win.snap.admins[owner].email ELSE "")

\* C5: a Rename by an authenticated admin whose new name normalizes to the
\* tenant's current name is a no-op: it returns the existing tenant view,
\* creates and drops no partition, and leaves every field of the tenant
\* record and every admin record unchanged.
C5_SameNameNoOp ==
    \A p \in Procs : \A t \in DOMAIN win.snap.orgs :
        ( /\ RenameAlone(p, t)
          /\ _normalize_name(proc[p].organization_name) = win.snap.orgs[t].name )
        => /\ proc[p].res = "ok"
           /\ proc[p].organization = SnapViewOf(t)
           /\ DOMAIN colls = DOMAIN win.snap.colls
           /\ orgs = win.snap.orgs
           /\ admins = win.snap.admins

\* C2: no two tenant records have the same name, and no two have the same
\* collection_name, in any reachable state.
C2_UniqueNames ==
    \A i, j \in DOMAIN orgs :
        i # j => /\ orgs[i].name # orgs[j].name
                 /\ orgs[i].collection_name # orgs[j].collection_name

\* ---- deletes that overlap no other call
\* The tenant the name of the delete in slot p resolved to in the store the
\* call started from (0 when there is none).
SnapResolved(p) ==
    FirstId({ i \in DOMAIN win.snap.orgs :
                win.snap.orgs[i].name = _normalize_name(proc[p].organization_name) })

\* The delete of slot p has run on its own with a token that decodes.
DeleteAlone(p) ==
    /\ AloneReturned(p)
    /\ proc[p].op = "delete"
    /\ TokenDecodes(proc[p].token)

\* The org claim of the token of slot p differs from the id of the tenant the
\* name resolved to.
TokenOfOtherTenant(p) ==
    /\ DeleteAlone(p)
    /\ SnapResolved(p) # 0
    /\ ObjectId(proc[p].token.org) # SnapResolved(p)

StoreUnchanged ==
    /\ orgs = win.snap.orgs
    /\ admins = win.snap.admins
    /\ colls = win.snap.colls

\* The subject of the token of slot p was an active admin when the call
\* started.
SubjectActive(p) ==
    LET a == ObjectId(proc[p].token.sub)
    IN  a \in DOMAIN win.snap.admins /\ win.snap.admins[a].is_active

\* C6 (as stated): a Delete whose token's org claim differs from the id of
\* the tenant the name resolves to fails with TokenTenantMismatch, and no
\* partition, admin record or tenant record is changed.
C6_TokenTenantMismatch ==
    \A p \in Procs :
        TokenOfOtherTenant(p)
        => /\ proc[p].res = "Token does not match organization"
           /\ StoreUnchanged

\* C6 (amended): such a Delete fails and changes no partition, admin record
\* or tenant record; it fails with TokenTenantMismatch when the token's
\* subject is still an active admin, and with InvalidCredentials when it is
\* not.
C6_MismatchOrStaleSubject ==
    \A p \in Procs :
        TokenOfOtherTenant(p)
        => /\ proc[p].res = IF SubjectActive(p)
                            THEN "Token does not match organization"
                            ELSE "Invalid credentials"
           /\ StoreUnchanged

\* A delete of one tenant with the token of an active admin of another
\* tenant has been refused.
C6_Witness ==
    \E p \in Procs :
        /\ TokenOfOtherTenant(p)
        /\ SubjectActive(p)
        /\ proc[p].res = "Token does not match organization"
        /\ ObjectId(proc[p].token.org) \in DOMAIN orgs

\* C7: after a Delete that returns successfully, the tenant's partition does
\* not exist, no admin record has org_id equal to the tenant's id, and no
\* tenant record has that id or that name; the other tenants' records,
\* admins and partitions are unchanged.
C7_DeleteRemovesTenant ==
    \A p \in Procs :
        LET t == proc[p].org_id
            name == _normalize_name(proc[p].organization_name)
        IN  ( /\ DeleteAlone(p)
              /\ proc[p].res = "ok" )
            => /\ proc[p].old_collection \notin DOMAIN colls
               /\ \A a \in DOMAIN admins : admins[a].org_id # t
               /\ \A i \in DOMAIN orgs : i # t /\ orgs[i].name # name
               /\ \A i \in DOMAIN win.snap.orgs \ {t} :
                    /\ i \in DOMAIN orgs
                    /\ orgs[i] = win.snap.orgs[i]
                    /\ win.snap.orgs[i].collection_name \in DOMAIN win.snap.colls
                        => /\ orgs[i].collection_name \in DOMAIN colls
                           /\ colls[orgs[i].collection_name]
                                = win.snap.colls[orgs[i].collection_name]
               /\ \A a \in DOMAIN win.snap.admins :
                    win.snap.admins[a].org_id # t
                    => a \in DOMAIN admins /\ admins[a] = win.snap.admins[a]

\* C8: every active admin record's org_id is the id of an existing tenant
\* record, in every reachable state.
C8_AdminsReferenceTenants ==
    \A a \in DOMAIN admins :
        admins[a].is_active => admins[a].org_id \in DOMAIN orgs

\* A delete has removed a tenant's admins and is about to remove the tenant
\* record, while another tenant and its admin exist.
C8_Witness ==
    \E p \in Procs :
        /\ proc[p].pc = "d_delete_org"
        /\ proc[p].org_id \in DOMAIN orgs
        /\ \E a \in DOMAIN admins : admins[a].is_active

\* C9: every tenant record's collection_name is "org_" followed by its
\* name, in every reachable state.
C9_CollectionNameDerived ==
    \A i \in DOMAIN orgs : orgs[i].collection_name = CollectionOf(orgs[i].name)

\* A tenant has been renamed: its record carries another name than the
\* display name it was created with normalizes to.
C9_Witness ==
    \E i \in DOMAIN orgs :
        /\ orgs[i].updated_at # orgs[i].created_at
        /\ orgs[i].collection_name = CollectionOf(orgs[i].name)

\* C10: the partition of every active tenant exists at every step boundary.
C10_PartitionExists ==
    \A i \in DOMAIN orgs :
        orgs[i].status = "active" => orgs[i].collection_name \in DOMAIN colls

\* ---- the kinds of token failure
\* The kind of the spec's taxonomy a message of delete_organization stands
\* for.
TokenFailureKind(res) ==
    IF res = "Invalid token" THEN "TokenInvalid"
    ELSE IF res = "Invalid token payload" THEN "InvalidTokenPayload"
    ELSE IF res = "Token expired" THEN "TokenExpired"
    ELSE "Other"

\* C14: Delete tells token failures apart: a token whose expiry has passed
\* fails with TokenExpired, a token with a bad signature or format fails
\* with TokenInvalid, and a well-signed unexpired token whose sub or org is
\* no valid identifier fails with InvalidTokenPayload; no store state
\* changes in any of the three cases.
C14_TokenFailureKinds ==
    \A p \in Procs :
        LET token == proc[p].token
            kind == TokenFailureKind(proc[p].res)
        IN  (AloneReturned(p) /\ proc[p].op = "delete") =>
                /\ (token \in tokens /\ token.exp = "passed")
                        => kind = "TokenExpired" /\ StoreUnchanged
                /\ token \notin tokens
                        => kind = "TokenInvalid" /\ StoreUnchanged
                /\ ( /\ TokenDecodes(token)
                     /\ ~IsObjectIdStr(token.sub) \/ ~IsObjectIdStr(token.org) )
                        => kind = "InvalidTokenPayload" /\ StoreUnchanged

\* ---- logins that overlap no other call
\* Admin a of the store the window started from was created by a Create that
\* ran through: its tenant record exists and names it as owner.
SnapCreated(a) ==
    /\ a \in DOMAIN win.snap.admins
    /\ win.snap.admins[a].is_active
    /\ win.snap.admins[a].org_id \in DOMAIN win.snap.orgs
    /\ win.snap.orgs[win.snap.admins[a].org_id].owner_admin_id = a

\* The login of slot p, run on its own, presented the email and password of
\* admin a.
LoginAs(p, a) ==
    /\ AloneReturned(p)
    /\ proc[p].op = "login"
    /\ SnapCreated(a)
    /\ win.snap.admins[a].email = proc[p].email
    /\ verify_password(proc[p].password, win.snap.admins[a].password_hash)

\* The login of slot p returned a token for admin a and a's tenant.
TokenFor(p, a) ==
    /\ proc[p].res = "ok"
    /\ decode_access_token(proc[p].token).sub = IdToStr(a)
    /\ decode_access_token(proc[p].token).org = IdToStr(win.snap.admins[a].org_id)

SnapFirstAdminByEmail(email) ==
    FirstId({ i \in DOMAIN win.snap.admins :
                win.snap.admins[i].email = email /\ win.snap.admins[i].is_active })

\* C11 (as stated): after a Create(name, email, password) that succeeded and
\* whose tenant has not been deleted, login(email, password) succeeds and
\* returns a token whose sub is the id of the admin that Create made and
\* whose org is the id of the tenant it made, whatever other tenants exist.
C11_LoginReturnsOwnToken ==
    \A p \in Procs : \A a \in DOMAIN win.snap.admins :
        LoginAs(p, a) => TokenFor(p, a)

\* C11 (amended): the same, when the admin that Create made is the first
\* active admin record with that email.
C11_LoginReturnsFirstMatch ==
    \A p \in Procs : \A a \in DOMAIN win.snap.admins :
        (LoginAs(p, a) /\ SnapFirstAdminByEmail(proc[p].email) = a) => TokenFor(p, a)

\* A login with the credentials of the first of two tenants' admins has
\* returned a token.
C11_Witness ==
    \E p \in Procs : \E a \in DOMAIN win.snap.admins :
        /\ LoginAs(p, a)
        /\ SnapFirstAdminByEmail(proc[p].email) = a
        /\ TokenFor(p, a)
        /\ Cardinality(DOMAIN win.snap.orgs) = 2

\* ---- what a delete removes
\* Slot p takes the step of delete_organization that leaves position pc.
DeleteStepFrom(p, pc) ==
    /\ proc[p].op = "delete"
    /\ proc[p].pc = pc
    /\ proc'[p].pc # pc

\* The tenant the token of slot p is bound to.
TokenTenant(p) == ObjectId(decode_access_token(proc[p].token).org)

\* C12: a Delete takes a destructive step only with a token whose subject
\* and org claims passed its checks, and so it never removes a partition, an
\* admin record or a tenant record of a tenant other than the one its token
\* is bound to.
C12_DeleteOnlyOwnTenant ==
    [][ \A p \in Procs :
          /\ DeleteStepFrom(p, "d_drop_collection") =>
                /\ proc[p].org_id = TokenTenant(p)
                /\ \A i \in DOMAIN orgs :
                      ( /\ orgs[i].collection_name \in DOMAIN colls
                        /\ orgs[i].collection_name \notin DOMAIN colls' )
                      => i = TokenTenant(p)
          /\ DeleteStepFrom(p, "d_delete_admins") =>
                \A a \in DOMAIN admins \ DOMAIN admins' :
                    admins[a].org_id = TokenTenant(p)
          /\ DeleteStepFrom(p, "d_delete_org") =>
                \A i \in DOMAIN orgs \ DOMAIN orgs' : i = TokenTenant(p)
    ]_vars

\* ---- who a rename acts for
SnapOrgNamed(name) ==
    FirstId({ i \in DOMAIN win.snap.orgs : win.snap.orgs[i].name = name })

\* The update_organization_better of slot p, run on its own, authenticated an
\* admin whose org_id is not the id of the tenant current_name resolves to.
RenameOfForeignTenant(p) ==
    /\ AloneReturned(p)
    /\ proc[p].op = "update_better"
    /\ proc[p].admin_id \in DOMAIN win.snap.admins
    /\ SnapOrgNamed(_normalize_name(proc[p].current_name)) # 0
    /\ win.snap.admins[proc[p].admin_id].org_id
            # SnapOrgNamed(_normalize_name(proc[p].current_name))

\* C13: a RenameFrom(currentName, newName, credentials) whose authenticated
\* admin's org_id differs from the id of the tenant currentName resolves to
\* fails with NotAuthorized and changes no tenant record, admin record or
\* partition; the first Rename variant acts on no tenant but the one whose id
\* is the authenticated admin's org_id.
C13_RenameOnlyOwnTenant ==
    \A p \in Procs :
        /\ RenameOfForeignTenant(p)
            => /\ proc[p].res = "Admin not authorized for this organization"
               /\ StoreUnchanged
        /\ ( /\ AloneReturned(p)
             /\ proc[p].op = "update"
             /\ proc[p].admin_id \in DOMAIN win.snap.admins )
            => /\ proc[p].org_id = win.snap.admins[proc[p].admin_id].org_id
               /\ DOMAIN orgs = DOMAIN win.snap.orgs
               /\ \A i \in DOMAIN orgs \ { proc[p].org_id } : orgs[i] = win.snap.orgs[i]

\* An update_organization_better naming another admin's tenant has been
\* refused.
C13_Witness ==
    \E p \in Procs :
        /\ RenameOfForeignTenant(p)
        /\ proc[p].res = "Admin not authorized for this organization"
        /\ _normalize_name(proc[p].organization_name)
                # _normalize_name(proc[p].current_name)

\* ---- the shape of a normalized name
HasDoubleUnderscore(s) ==
    \E i \in 1..(Len(s) - 1) : s[i] = "_" /\ s[i + 1] = "_"

WellFormedSlug(s) ==
    /\ \A i \in 1..Len(s) : IsSlugChar(s[i]) \/ s[i] = "_"
    /\ s[1] # "_"
    /\ s[Len(s)] # "_"
    /\ ~HasDoubleUnderscore(s)

\* C15: normalize is idempotent on every name whose normalization is not
\* empty, and the result has only characters of [a-z0-9_], no leading or
\* trailing "_" and no two "_" in a row.
C15_NormalizeIdempotent ==
    \A p \in Procs :
        LET normalized == _normalize_name(proc[p].organization_name)
        IN  (proc[p].op = "create" /\ normalized # <<>>) =>
                /\ _normalize_name(normalized) = normalized
                /\ WellFormedSlug(normalized)

\* A tenant has been created under a name with upper case and a run of two
\* separators inside, which its normalization collapsed into one "_".
C15_Witness ==
    \E p \in Procs :
        /\ proc[p].op = "create"
        /\ proc[p].res = "ok"
        /\ proc[p].organization_name = <<"A", "-", " ", "0">>
        /\ _normalize_name(proc[p].organization_name) = <<"a", "_", "0">>
        /\ FindOrgByName(<<"a", "_", "0">>) # 0

\* ---- the order of a delete's store steps
\* The delete of slot p is the only call since the store was last at rest.
DeleteInFlightAlone(p) ==
    /\ win.begun = 1
    /\ proc[p].op = "delete"

AdminsOf(coll, t) == { a \in DOMAIN coll : coll[a].org_id = t }

\* The partitions of the snapshot without the one named `name`.
SnapCollsWithout(name) ==
    [c \in DOMAIN win.snap.colls \ {name} |-> win.snap.colls[c]]

\* C16: a Delete that passes its checks drops the tenant's partition, then
\* deletes the admin records with that org_id, then deletes the tenant
\* record; so wherever it stops part-way, an admin of the tenant exists only
\* if the tenant record does, and if the tenant record is gone so are its
\* admins and its partition.
C16_DeleteOrder ==
    \A p \in Procs :
        LET t == proc[p].org_id
        IN  DeleteInFlightAlone(p) =>
              /\ proc[p].pc \in { "d_find_admin", "d_find_org", "d_drop_collection" }
                    => StoreNow = win.snap
              /\ proc[p].pc = "d_delete_admins"
                    => /\ colls = SnapCollsWithout(proc[p].old_collection)
                       /\ admins = win.snap.admins
                       /\ orgs = win.snap.orgs
              /\ proc[p].pc = "d_delete_org"
                    => /\ colls = SnapCollsWithout(proc[p].old_collection)
                       /\ admins = DeleteWhere(win.snap.admins, AdminsOf(win.snap.admins, t))
                       /\ orgs = win.snap.orgs
              /\ (proc[p].pc = "done" /\ proc[p].res = "ok")
                    => /\ colls = SnapCollsWithout(proc[p].old_collection)
                       /\ admins = DeleteWhere(win.snap.admins, AdminsOf(win.snap.admins, t))
                       /\ orgs = DeleteWhere(win.snap.orgs, {t})
              /\ proc[p].pc \in { "d_drop_collection", "d_delete_admins", "d_delete_org" }
                    => /\ AdminsOf(admins, t) # {} => t \in DOMAIN orgs
                       /\ t \notin DOMAIN orgs
                            => /\ AdminsOf(admins, t) = {}
                               /\ proc[p].old_collection \notin DOMAIN colls

\* A delete has dropped the partition of its tenant and removed the tenant's
\* admin, and is about to remove the tenant record.
C16_Witness ==
    \E p \in Procs :
        /\ DeleteInFlightAlone(p)
        /\ proc[p].pc = "d_delete_org"
        /\ proc[p].old_collection \in DOMAIN win.snap.colls
        /\ proc[p].old_collection \notin DOMAIN colls
        /\ AdminsOf(win.snap.admins, proc[p].org_id) # {}
        /\ AdminsOf(admins, proc[p].org_id) = {}
        /\ proc[p].org_id \in DOMAIN orgs

\* ---- the order of a rename's store steps
\* The rename of slot p is the only call since the store was last at rest.
RenameInFlightAlone(p) ==
    /\ win.begun = 1
    /\ IsRename(proc[p])

\* The new partition of the rename of slot p holds exactly the documents its
\* old partition held when the rename started, and the old one is gone.
Migrated(p) ==
    LET new_collection == CollectionOf(_normalize_name(proc[p].organization_name))
    IN  /\ new_collection \in DOMAIN colls
        /\ colls[new_collection] = SnapDocsOf(proc[p].old_collection)
        /\ proc[p].old_collection \notin DOMAIN colls

\* C17: in either Rename variant the update of the tenant's metadata happens
\* only after the new partition has been created and filled with all the
\* documents of the old one and the old one has been dropped; it never
\* happens when the creation or the copy failed.
C17_MetaUpdateLast ==
    \A p \in Procs :
        RenameInFlightAlone(p) =>
            /\ proc[p].pc = "u_update_meta" => Migrated(p)
            /\ orgs # win.snap.orgs
                => /\ proc[p].pc \in { "v_find_org", "v_find_owner", "done" }
                   /\ Migrated(p)
            /\ proc[p].pc \in { "u_rollback", "u_insert_many", "u_read_docs",
                                  "u_create_collection", "u_drop_old" }
                => orgs = win.snap.orgs
            /\ ( /\ proc[p].pc = "done"
                 /\ proc[p].res \in { "Organization collection already exists",
                                       "migration failed" } )
                => orgs = win.snap.orgs

\* A rename has copied a document into its new partition and dropped the old
\* one, and is about to update the tenant record.
C17_Witness ==
    \E p \in Procs :
        /\ RenameInFlightAlone(p)
        /\ proc[p].pc = "u_update_meta"
        /\ SnapDocsOf(proc[p].old_collection) # {}
        /\ Migrated(p)
        /\ orgs = win.snap.orgs

\* ---- partitions and tenant records at rest
ReferencedCollections == { orgs[i].collection_name : i \in DOMAIN orgs }

\* C18: in every state with no call in flight, reached without a failed or
\* crashed step, the existing partitions are exactly the collection_name
\* values of the tenant records: one partition per tenant, and no partition
\* that no tenant record references.
C18_PartitionsMatchTenants ==
    Quiescent => DOMAIN colls = ReferencedCollections

\* ---- two renames of one tenant that overlap
NewCollectionOf(call) == CollectionOf(_normalize_name(call.organization_name))

\* The rename of slot p and the call that returned before it overlapped, both
\* renamed the same tenant from the same partition to different new names,
\* and both returned successfully.
BothRenamed(p) ==
    /\ PairReturned(p)
    /\ IsRename(win.ended[1])
    /\ IsRename(proc[p])
    /\ RenameSucceeded(win.ended[1])
    /\ RenameSucceeded(proc[p])
    /\ win.ended[1].org_id = proc[p].org_id
    /\ win.ended[1].old_collection = proc[p].old_collection
    /\ NewCollectionOf(win.ended[1]) # NewCollectionOf(proc[p])

\* C19: two overlapping Renames of the same tenant to different new names
\* are not serialized: when both pass their checks from the same old
\* partition, create their new partition and return without error, the
\* tenant record names one of the two new partitions and the other stays in
\* the store, referenced by no tenant record.
C19_OverlappingRenamesOrphan ==
    \A p \in Procs :
        BothRenamed(p) =>
            LET t == proc[p].org_id
                first == NewCollectionOf(win.ended[1])
                second == NewCollectionOf(proc[p])
            IN  /\ t \in DOMAIN orgs
                /\ orgs[t].collection_name \in { first, second }
                /\ { first, second } \subseteq DOMAIN colls
                /\ \E orphan \in { first, second } :
                        orphan \notin ReferencedCollections

\* Two overlapping renames of a tenant whose partition held a document have
\* both copied it and both returned successfully.
C19_Witness ==
    \E p \in Procs :
        /\ BothRenamed(p)
        /\ win.ended[1].docs # {}
        /\ proc[p].docs # {}
        /\ colls[NewCollectionOf(win.ended[1])] = win.ended[1].docs
        /\ colls[NewCollectionOf(proc[p])] = proc[p].docs
        /\ Cardinality(DOMAIN colls \ ReferencedCollections) = 1

\* ---- the owner of a tenant
\* The owner_admin_id of tenant i names an active admin record of tenant i.
OwnerLinked(i) ==
    /\ orgs[i].owner_admin_id # 0
    /\ orgs[i].owner_admin_id \in DOMAIN admins
    /\ admins[orgs[i].owner_admin_id].is_active
    /\ admins[orgs[i].owner_admin_id].org_id = i

\* The create that inserted tenant i stands between insert_one of the tenant
\* and the update_one that links the owner.
CreateLinking(i) ==
    \E p \in Procs :
        /\ proc[p].op = "create"
        /\ proc[p].org_id = i
        /\ proc[p].pc \in { "c_insert_admin", "c_link_owner" }

\* C20: in every state with no call in flight, reached without a failed or
\* crashed step, every tenant record has an owner_admin_id that is the id of
\* an existing active admin record whose org_id is the tenant's id; the
\* owner_admin_id is null only while the Create that inserted the record is
\* between its tenant insert and its owner link.
C20_OwnerLinked ==
    /\ Quiescent => \A i \in DOMAIN orgs : OwnerLinked(i)
    /\ \A i \in DOMAIN orgs : orgs[i].owner_admin_id = 0 => CreateLinking(i)

\* Two tenants have been created and nothing is in flight.
C20_Witness ==
    /\ Quiescent
    /\ Cardinality(DOMAIN orgs) = 2
    /\ \A i \in DOMAIN orgs : OwnerLinked(i)

\* ---- renames to a name that is taken
\* In the store the window started from, the name is that of a tenant record
\* other than t.
HeldByOther(name, t) ==
    \E i \in DOMAIN win.snap.orgs \ {t} : win.snap.orgs[i].name = name

\* The rename of slot p and the call that returned before it overlapped and
\* renamed two different tenants to the same new name.
SameTargetRenames(p) ==
    /\ PairReturned(p)
    /\ IsRename(win.ended[1])
    /\ IsRename(proc[p])
    /\ win.ended[1].org_id # 0
    /\ proc[p].org_id # 0
    /\ win.ended[1].org_id # proc[p].org_id
    /\ _normalize_name(win.ended[1].organization_name)
            = _normalize_name(proc[p].organization_name)

\* C21: a Rename whose normalized new name is the name of another tenant
\* record, or whose target partition already exists, fails with
\* DuplicateName and changes no tenant record, admin record or partition;
\* and of two overlapping Renames of different tenants to the same new name
\* at most one succeeds.
C21_RenameDuplicateName ==
    \A p \in Procs :
        /\ \A t \in DOMAIN win.snap.orgs :
              LET normalized_new == _normalize_name(proc[p].organization_name)
              IN  ( /\ RenameAlone(p, t)
                    /\ normalized_new # win.snap.orgs[t].name
                    /\ \/ HeldByOther(normalized_new, t)
                       \/ CollectionOf(normalized_new) \in DOMAIN win.snap.colls )
                  => /\ DuplicateName(proc[p])
                     /\ StoreUnchanged
        /\ SameTargetRenames(p)
              => ~(RenameSucceeded(win.ended[1]) /\ RenameSucceeded(proc[p]))

\* Two admins renamed their tenants to the same new name at the same time:
\* both passed the name check, one succeeded and the other was stopped by the
\* collection that already existed.
C21_Witness ==
    \E p \in Procs :
        /\ SameTargetRenames(p)
        /\ \/ /\ RenameSucceeded(win.ended[1])
              /\ proc[p].res = "Organization collection already exists"
           \/ /\ RenameSucceeded(proc[p])
              /\ win.ended[1].res = "Organization collection already exists"

\* ---- creates that fail
InvalidName(call) == call.res = "Organization name is empty after normalization"

\* The create was refused for its name.
CreateRefused(call) ==
    /\ call.op = "create"
    /\ InvalidName(call) \/ DuplicateName(call)

\* The store differs from the one the window started from by exactly the
\* tenant record, the admin record and the partition of the create `call`.
OnlyAdded(call) ==
    /\ DOMAIN orgs = DOMAIN win.snap.orgs \cup { call.org_id }
    /\ DOMAIN admins = DOMAIN win.snap.admins \cup { call.admin_id }
    /\ DOMAIN colls = DOMAIN win.snap.colls
                        \cup { CollectionOf(_normalize_name(call.organization_name)) }
    /\ \A i \in DOMAIN win.snap.orgs : orgs[i] = win.snap.orgs[i]
    /\ \A a \in DOMAIN win.snap.admins : admins[a] = win.snap.admins[a]
    /\ \A c \in DOMAIN win.snap.colls : colls[c] = win.snap.colls[c]

\* C22: a Create that fails with InvalidName or DuplicateName, at the
\* pre-check or at the creation of the partition, leaves the store
\* unchanged: no tenant record, no admin record and no partition is added,
\* and the partition and records of the tenant that holds the name are
\* neither dropped nor modified.
C22_RefusedCreateChangesNothing ==
    \A p \in Procs :
        /\ (AloneReturned(p) /\ CreateRefused(proc[p])) => StoreUnchanged
        /\ (PairReturned(p) /\ CreateRefused(win.ended[1]) /\ CreateRefused(proc[p]))
                => StoreUnchanged
        /\ (PairReturned(p) /\ CreateRefused(win.ended[1]) /\ CreateSucceeded(proc[p])
                /\ proc[p].op = "create")
                => OnlyAdded(proc[p])
        /\ (PairReturned(p) /\ CreateRefused(proc[p]) /\ CreateSucceeded(win.ended[1])
                /\ win.ended[1].op = "create")
                => OnlyAdded(win.ended[1])

\* Of two overlapping creates of one name, both past the pre-check, the one
\* that came second to create_collection has been refused.
C22_Witness ==
    \E p \in Procs :
        /\ PairReturned(p)
        /\ CreateSucceeded(win.ended[1])
        /\ win.ended[1].op = "create"
        /\ proc[p].op = "create"
        /\ proc[p].res = "Organization collection already exists"
        /\ OnlyAdded(win.ended[1])

\* ---- partitions left behind by a create that stopped
\* A call in flight has created the partition and has yet to write the
\* tenant record that names it.
BeingProvisioned(c) ==
    \E p \in Procs :
        /\ CollectionOf(_normalize_name(proc[p].organization_name)) = c
        /\ \/ proc[p].op = "create" /\ proc[p].pc = "c_insert_org"
           \/ IsRename(proc[p]) /\ proc[p].pc \in
                { "u_read_docs", "u_insert_many", "u_rollback", "u_drop_old", "u_update_meta" }

\* The partition exists, no tenant record names it, and no call in flight is
\* about to: the Create that made it stopped before insert_one.
Orphaned(c) ==
    /\ c \in DOMAIN colls
    /\ c \notin ReferencedCollections
    /\ ~BeingProvisioned(c)

\* C23: the partition of a Create that stopped after create_collection and
\* before the insert of the tenant record is never cleaned up by any
\* operation: in every later state it exists and no tenant record names it,
\* so every Create and Rename to that name fails at create_collection.
C23_OrphanStays ==
    [][ \A c \in DOMAIN colls : Orphaned(c) => Orphaned(c)' ]_vars

\* ---- tokens that outlive their tenant
\* The delete of slot p, run on its own, presented a token issued for a
\* tenant of which the store it started from has neither the tenant record
\* nor an admin record.
TokenOfDeletedTenant(p) ==
    /\ AloneReturned(p)
    /\ proc[p].op = "delete"
    /\ IsObjectIdStr(proc[p].token.sub)
    /\ IsObjectIdStr(proc[p].token.org)
    /\ ObjectId(proc[p].token.org) \notin DOMAIN win.snap.orgs
    /\ AdminsOf(win.snap.admins, ObjectId(proc[p].token.org)) = {}

Adminless(coll, t) ==
    \A a \in DOMAIN coll : coll[a].org_id = t => ~coll[a].is_active

\* The call in slot p is at work on tenant t: a create that inserted it, a
\* delete past its admin check, or a rename that authenticated one of its
\* admins.
AtWorkOn(p, t) ==
    /\ proc[p].org_id = t
    /\ \/ proc[p].op = "create" /\ proc[p].pc \notin { "idle", "done" }
       \/ proc[p].op = "delete" /\ proc[p].pc \in
            { "d_find_org", "d_drop_collection", "d_delete_admins", "d_delete_org" }
       \/ IsRename(proc[p]) /\ proc[p].pc \notin { "idle", "done", "u_find_admin" }

\* The tenant record exists, it has no active admin, and no call in flight
\* is at work on it.
Stranded(t) ==
    /\ t \in DOMAIN orgs
    /\ Adminless(admins, t)
    /\ \A p \in Procs : ~AtWorkOn(p, t)

\* The create or rename of slot p, run on its own, asked for the name of a
\* tenant record that had no active admin when the call started.
TargetsAdminless(p) ==
    \E t \in DOMAIN win.snap.orgs :
        /\ Adminless(win.snap.admins, t)
        /\ _normalize_name(proc[p].organization_name) = win.snap.orgs[t].name
        /\ \/ AloneReturned(p) /\ proc[p].op = "create"
           \/ \E own \in DOMAIN win.snap.orgs \ {t} :
                /\ RenameAlone(p, own)
                /\ win.snap.orgs[own].name # win.snap.orgs[t].name

RenameStep(p) ==
    /\ IsRename(proc[p])
    /\ proc[p].pc \notin { "idle", "done" }
    /\ proc'[p] # proc[p]

\* The two records differ at most in the fields a rename sets.
SameButRenamed(before, after) ==
    after = [before EXCEPT !.name = after.name,
                           !.display_name = after.display_name,
                           !.collection_name = after.collection_name,
                           !.updated_at = after.updated_at]

\* C26: a Rename of either variant never inserts or deletes a tenant record
\* and never changes an admin record; it writes only the name, display_name,
\* collection_name and updated_at of the one tenant record it resolved, and
\* the old and the new partition.  When a concurrent Delete has removed the
\* resolved record before the metadata update, the update matches nothing
\* and the record is not created again.
C26_RenameWrites ==
    [][ \A p \in Procs :
          RenameStep(p) =>
            /\ DOMAIN orgs' = DOMAIN orgs
            /\ admins' = admins
            /\ \A i \in DOMAIN orgs :
                  IF i = proc[p].org_id
                  THEN SameButRenamed(orgs[i], orgs'[i])
                  ELSE orgs'[i] = orgs[i]
            /\ \A c \in (DOMAIN colls \cup DOMAIN colls')
                        \ { proc[p].old_collection,
                            CollectionOf(_normalize_name(proc[p].organization_name)) } :
                  /\ c \in DOMAIN colls
                  /\ c \in DOMAIN colls'
                  /\ colls'[c] = colls[c]
    ]_vars

\* A delete that overlapped a rename has removed the tenant record the rename
\* had resolved and has returned; the rename has created its new partition
\* and dropped the old one, and its update_one is about to match nothing.
C26_Witness ==
    \E p \in Procs :
        /\ IsRename(proc[p])
        /\ proc[p].pc = "u_update_meta"
        /\ proc[p].org_id \notin DOMAIN orgs
        /\ CollectionOf(_normalize_name(proc[p].organization_name)) \in DOMAIN colls
        /\ win.begun = 2
        /\ Len(win.ended) = 1
        /\ win.ended[1].op = "delete"
        /\ win.ended[1].res = "ok"
        /\ win.ended[1].org_id = proc[p].org_id

====
